---- MODULE Spec2Model ----
(***************************************************************************)
(* Hull-White trinomial lattice of financepy/models/FinHullWhiteRateModel. *)
(*                                                                         *)
(* Every Python float is a fixed-point number: the integer x stands for    *)
(* the real x / One, and every arithmetic operation rounds its exact       *)
(* result down to the grid, the way a float operation rounds to the        *)
(* nearest double.  Equalities between floats that the lattice only        *)
(* guarantees "within floating-point tolerance" are therefore stated       *)
(* within Tol.  All intermediate values stay inside 32-bit integers.       *)
(***************************************************************************)
EXTENDS Integers, Sequences, FiniteSets

\* ------------------------------------------------------------------------
\* Float arithmetic (math.exp, math.log, math.sqrt, *, /, ceil, int, round)
\* ------------------------------------------------------------------------

One == 1000 * 1000

Half == One \div 2

Abs(x) == IF x < 0 THEN -x ELSE x

Max(x, y) == IF x >= y THEN x ELSE y

Min(x, y) == IF x <= y THEN x ELSE y

\* x * y, the exact product rounded down: floor(x*y / One), split in
\* thousands so that no intermediate product leaves 32 bits.
Mul(x, y) ==
    LET x1 == x \div 1000
        x0 == x % 1000
        y1 == y \div 1000
        y0 == y % 1000
    IN  x1 * y1 + ((x1 * y0 + x0 * y1 + (x0 * y0) \div 1000) \div 1000)

\* One more decimal digit of a long division: <<quotient so far, remainder>>.
DivDigit(qr, d) ==
    <<qr[1] * 10 + (qr[2] * 10) \div d, (qr[2] * 10) % d>>

\* n / d for d > 0: floor(n * One / d) by long division, six digits.
DivPos(n, d) ==
    DivDigit(DivDigit(DivDigit(DivDigit(DivDigit(DivDigit(
        <<n \div d, n % d>>, d), d), d), d), d), d)[1]

\* x / y (y # 0; a zero divisor raises ZeroDivisionError before this is used).
Div(x, y) == IF y > 0 THEN DivPos(x, y) ELSE DivPos(-x, -y)

\* The Taylor series of exp in Horner form, terms n..ExpTerms.
RECURSIVE ExpSer(_, _)
ExpSer(x, n) ==
    IF n > 10 THEN One ELSE One + Mul(x, ExpSer(x, n + 1)) \div n

\* math.exp: halve the argument until the series converges fast, then square.
Square(x) == Mul(x, x)

RECURSIVE Exp(_)
Exp(x) ==
    IF x < -20 * One THEN 0
    ELSE IF Abs(x) > Half THEN Square(Exp(x \div 2))
    ELSE ExpSer(x, 1)

\* sum over k of u^(2k+1)/(2k+1), from the term u^(2k+1) on.
RECURSIVE LogSer(_, _, _)
LogSer(u2, term, k) ==
    IF term = 0 \/ k > 30 THEN 0
    ELSE term \div (2 * k + 1) + LogSer(u2, Mul(term, u2), k + 1)

\* math.log for y > 0: 2 * atanh((y - 1) / (y + 1)).
Atanh2(u) == 2 * LogSer(Mul(u, u), u, 0)

Log(y) ==
    IF y >= One THEN Atanh2(Div(y - One, y + One))
    ELSE -Atanh2(Div(One - y, y + One))

\* math.sqrt by Newton's iteration.
RECURSIVE SqrtIter(_, _, _)
SqrtIter(x, s, n) ==
    IF n = 0 \/ s = 0 \/ (s + Div(x, s)) \div 2 = s THEN s
    ELSE SqrtIter(x, (s + Div(x, s)) \div 2, n - 1)

Sqrt(x) == IF x <= 0 THEN 0 ELSE SqrtIter(x, Max(x, One), 24)

\* math.ceil of the quotient n / d (d > 0), an integer.
CeilDiv(n, d) == -((-n) \div d)

\* int(x): truncation toward zero, an integer.
Trunc(x) == IF x >= 0 THEN x \div One ELSE -((-x) \div One)

\* round(x, 0): to the nearest integer, a tie to the even one.
RoundHalfEven(x) ==
    LET f == x \div One
        r == x % One
    IN  IF r > Half THEN f + 1
        ELSE IF r < Half THEN f
        ELSE IF f % 2 = 0 THEN f ELSE f + 1

\* ------------------------------------------------------------------------
\* numpy arrays: a sequence holds the array, Python offset i at position i+1
\* ------------------------------------------------------------------------

\* The array whose offset i holds f[i], for f defined on the offsets 0..n-1.
Array(f) == [i \in 1..Cardinality(DOMAIN f) |-> f[i - 1]] \o <<>>

\* arr[i] for an offset 0 <= i < len(arr).
At(arr, i) == arr[i + 1]

\* arr[i] as numpy reads it: a negative offset counts from the end.
PyAt(arr, i) == IF i < 0 THEN arr[Len(arr) + i + 1] ELSE arr[i + 1]

\* Whether arr[i] raises IndexError.
OutOfRange(arr, i) == i >= Len(arr) \/ i < -Len(arr)

\* np.zeros(shape=(n))
Zeros(n) == Array([i \in 0..(n - 1) |-> 0])

\* np.zeros(shape=(rows, cols))
Zeros2(rows, cols) == Array([i \in 0..(rows - 1) |-> Zeros(cols)])

\* f[lo] + f[lo+1] + ... + f[hi], accumulated as a for loop does.
RECURSIVE SumTo(_, _)
SumTo(terms, n) == IF n = 0 THEN 0 ELSE SumTo(terms, n - 1) + terms[n]

Sum(f, lo, hi) ==
    SumTo([i \in 1..(hi - lo + 1) |-> f[lo + i - 1]] \o <<>>, Max(hi - lo + 1, 0))

\* ------------------------------------------------------------------------
\* The discount curve (an external collaborator): flat, continuously
\* compounded.  discountCurve.df(t) and the flat-forward interpolation
\* uinterpolate(t, curve._times, curve._values) both read it.
\* ------------------------------------------------------------------------

CurveDf(curve, t) == Exp(-Mul(curve[1], t))

\* ------------------------------------------------------------------------
\* buildTreeFast
\* ------------------------------------------------------------------------

\* jmax = ceil(0.1835/(a * dt))
JmaxNumer == 183500

Jmax(a, dt) == CeilDiv(JmaxNumer, Mul(a, dt))

\* A faulty variant of Probabilities: the top boundary takes the interior's
\* constant 1/6 for pu where it needs 7/6, so its three do not sum to 1.
ProbabilitiesTopSlip(a, dt, j, jmax) ==
    LET ajdt == Mul(a * j, dt)
        sq == Mul(ajdt, ajdt)
    IN  IF j = jmax
        THEN <<Div(One, 6 * One) + Mul(Half, sq - 3 * ajdt),
               -Div(One, 3 * One) - sq + 2 * ajdt,
               Div(One, 6 * One) + Mul(Half, sq - ajdt)>>
        ELSE IF j = -jmax
        THEN <<Div(One, 6 * One) + Mul(Half, sq + ajdt),
               -Div(One, 3 * One) - sq - 2 * ajdt,
               Div(7 * One, 6 * One) + Mul(Half, sq + 3 * ajdt)>>
        ELSE <<Div(One, 6 * One) + Mul(Half, sq - ajdt),
               Div(2 * One, 3 * One) - sq,
               Div(One, 6 * One) + Mul(Half, sq + ajdt)>>

\* The three transition probabilities of spatial index j: <<pu, pm, pd>>.
Probabilities(a, dt, j, jmax) ==
    LET ajdt == Mul(a * j, dt)
        sq == Mul(ajdt, ajdt)
    IN  IF j = jmax
        THEN <<Div(7 * One, 6 * One) + Mul(Half, sq - 3 * ajdt),
               -Div(One, 3 * One) - sq + 2 * ajdt,
               Div(One, 6 * One) + Mul(Half, sq - ajdt)>>
        ELSE IF j = -jmax
        THEN <<Div(One, 6 * One) + Mul(Half, sq + ajdt),
               -Div(One, 3 * One) - sq - 2 * ajdt,
               Div(7 * One, 6 * One) + Mul(Half, sq + 3 * ajdt)>>
        ELSE <<Div(One, 6 * One) + Mul(Half, sq - ajdt),
               Div(2 * One, 3 * One) - sq,
               Div(One, 6 * One) + Mul(Half, sq + ajdt)>>

\* A faulty variant of BranchTargets: the bottom boundary is not told apart
\* and branches as an interior node does.
BranchTargetsNoBottom(j, jmax) ==
    LET jN == j + jmax
    IN  IF j = jmax THEN [u |-> jN, m |-> jN - 1, d |-> jN - 2]
        ELSE [u |-> jN + 1, m |-> jN, d |-> jN - 1]

\* The offsets of row m+1 that node j of row m adds to: those that take
\* its pu, pm and pd share.
BranchTargets(j, jmax) ==
    LET jN == j + jmax
    IN  IF j = jmax THEN [u |-> jN, m |-> jN - 1, d |-> jN - 2]
        ELSE IF j = -jmax THEN [u |-> jN + 2, m |-> jN + 1, d |-> jN]
        ELSE [u |-> jN + 1, m |-> jN, d |-> jN - 1]

\* What node j of row m adds to offset t of row m+1.
Propagated(c, Qm, zs, j, t) ==
    LET jN == j + c.jmax
        tg == BranchTargets(j, c.jmax)
        q == At(Qm, jN)
    IN  (IF tg.u = t THEN Mul(Mul(q, At(c.pu, jN)), At(zs, jN)) ELSE 0)
      + (IF tg.m = t THEN Mul(Mul(q, At(c.pm, jN)), At(zs, jN)) ELSE 0)
      + (IF tg.d = t THEN Mul(Mul(q, At(c.pd, jN)), At(zs, jN)) ELSE 0)

\* A faulty variant of Alpha: the drift of row m calibrated to the discount
\* factor of time m where it needs that of time m+1.
AlphaOffByOne(c, Qm, m) ==
    Div(Log(Div(Sum([j \in (-Min(m, c.jmax))..Min(m, c.jmax) |->
                        Mul(At(Qm, j + c.jmax), Exp(-Mul(j * c.dR, c.dt)))],
                    -Min(m, c.jmax), Min(m, c.jmax)),
                At(c.discountFactors, m))),
        c.dt)

\* alpha[m]: the drift that makes row m reprice the discount factor of
\* time m+1.
Alpha(c, Qm, m) ==
    Div(Log(Div(Sum([j \in (-Min(m, c.jmax))..Min(m, c.jmax) |->
                        Mul(At(Qm, j + c.jmax), Exp(-Mul(j * c.dR, c.dt)))],
                    -Min(m, c.jmax), Min(m, c.jmax)),
                At(c.discountFactors, m + 1))),
        c.dt)

\* rt[m, :]: alpha[m] + j*dR at the occupied nodes of row m.
ShortRates(c, rtRow, m, alpham) ==
    Array([jN \in 0..(2 * c.jmax) |->
              IF Abs(jN - c.jmax) <= Min(m, c.jmax)
              THEN alpham + (jN - c.jmax) * c.dR
              ELSE At(rtRow, jN)])

\* z = exp(-rdt) at every node of a row of short rates.
OneStepDiscounts(c, rtm) ==
    Array([jN \in 0..(2 * c.jmax) |-> Exp(-Mul(At(rtm, jN), c.dt))])

\* Q[m+1, :] once every occupied node of row m has added its three shares.
NextPrices(c, Qm, Qnext, zs, m) ==
    Array([t \in 0..(2 * c.jmax) |->
              At(Qnext, t)
              + Sum([j \in (-Min(m, c.jmax))..Min(m, c.jmax) |->
                        Propagated(c, Qm, zs, j, t)],
                    -Min(m, c.jmax), Min(m, c.jmax))])

\* One pass of the big loop over time steps: calibrate alpha[m], set the
\* short rates of row m, and add row m's Arrow-Debreu prices into row m+1.
TreeStepRates(c, st, m, alpham, rtm) ==
    [alpha |-> [st.alpha EXCEPT ![m + 1] = alpham],
     rt |-> [st.rt EXCEPT ![m + 1] = rtm],
     Q |-> [st.Q EXCEPT ![m + 2] =
               NextPrices(c, At(st.Q, m), At(st.Q, m + 1),
                          OneStepDiscounts(c, rtm), m)]]

TreeStepAlpha(c, st, m, alpham) ==
    TreeStepRates(c, st, m, alpham, ShortRates(c, At(st.rt, m), m, alpham))

TreeStep(c, st, m) == TreeStepAlpha(c, st, m, Alpha(c, At(st.Q, m), m))

\* for m in range(0, numTimeSteps + 1): one pass for each entry of alpha.
RECURSIVE TreeLoop(_, _, _)
TreeLoop(c, st, m) ==
    IF m >= Len(st.alpha) THEN st ELSE TreeLoop(c, TreeStep(c, st, m), m + 1)

\* The quantities fixed before the big loop: the grid constants and the
\* probabilities of every spatial index.
TreeConstants(a, dt, dR, jmax, numTimeSteps, discountFactors) ==
    [jmax |-> jmax, dt |-> dt, dR |-> dR, numTimeSteps |-> numTimeSteps,
     discountFactors |-> discountFactors,
     pu |-> Array([jN \in 0..(2 * jmax) |-> Probabilities(a, dt, jN - jmax, jmax)[1]]),
     pm |-> Array([jN \in 0..(2 * jmax) |-> Probabilities(a, dt, jN - jmax, jmax)[2]]),
     pd |-> Array([jN \in 0..(2 * jmax) |-> Probabilities(a, dt, jN - jmax, jmax)[3]])]

\* Q, rt and alpha before the big loop: zeros, and Q[0, jmax] = 1.
TreeStart(c) ==
    [Q |-> [Zeros2(c.numTimeSteps + 2, 2 * c.jmax + 1) EXCEPT ![1][c.jmax + 1] = One],
     rt |-> Zeros2(c.numTimeSteps + 2, 2 * c.jmax + 1),
     alpha |-> Zeros(c.numTimeSteps + 1)]

\* What buildTreeFast returns, with the drift alpha the function keeps local.
TreeResult(c, st) ==
    [Q |-> st.Q, pu |-> c.pu, pm |-> c.pm, pd |-> c.pd, rt |-> st.rt,
     dt |-> c.dt, alpha |-> st.alpha, dR |-> c.dR, jmax |-> c.jmax]

TreeOf(c) == TreeResult(c, TreeLoop(c, TreeStart(c), 0))

TreeWithStep(a, sigma, dt, numTimeSteps, discountFactors) ==
    TreeOf(TreeConstants(a, dt, Mul(sigma, Sqrt(3 * dt)), Jmax(a, dt),
                         numTimeSteps, discountFactors))

buildTreeFast(a, sigma, treeTimes, numTimeSteps, discountFactors) ==
    TreeWithStep(a, sigma,
                 At(treeTimes, Len(treeTimes) - 1) \div (numTimeSteps + 1),
                 numTimeSteps, discountFactors)

\* np.linspace(0.0, stop, num)
Linspace(stop, num) ==
    LET step == stop \div (num - 1)
    IN  Array([i \in 0..(num - 1) |-> IF i = num - 1 THEN stop ELSE i * step])

\* buildTree up to the call of buildTreeFast: the time grid and the curve's
\* discount factor at every tree time.
TreeTimes(maturity, numTimeSteps) ==
    Linspace((maturity * (numTimeSteps + 1)) \div numTimeSteps, numTimeSteps + 2)

DiscountFactors(treeTimes, curve) ==
    Array([i \in 0..(Len(treeTimes) - 1) |-> IF i = 0 THEN One ELSE CurveDf(curve, At(treeTimes, i))])

\* ------------------------------------------------------------------------
\* FinHullWhiteRateModel: the pricing methods as functions of the object's
\* fields (self) and their arguments.  A method yields an outcome: the
\* exception it raises (exc, msg) or the value it returns (ret).
\* ------------------------------------------------------------------------

\* Python's None, for a field that holds no array and no curve.
None == <<>>

Raise(exc, msg) == [exc |-> exc, msg |-> msg, ret |-> <<>>]

Return(ret) == [exc |-> "none", msg |-> "", ret |-> ret]

\* B(t, T) = (1 - exp(-a (T - t))) / a, as a function of tau = T - t.
B(a, tau) == Div(One - Exp(-Mul(a, tau)), a)

\* P(t, T, Rt, delta, pt, ptd, pT) once BtT and BtDelta are known.
PGiven(sigma, a, t, Rt, delta, pt, ptd, pT, BtT, BtDelta) ==
    LET term1 == Log(Div(pT, pt)) - Mul(Div(BtT, BtDelta), Log(Div(ptd, pt)))
        term2 == Div(Mul(Mul(Mul(Mul(sigma, sigma), One - Exp(Mul(-2 * a, t))),
                             BtT), BtT - BtDelta), 4 * a)
        BhattT == Mul(Div(BtT, BtDelta), delta)
    IN  Exp(term1 - term2 - Mul(BhattT, Rt))

\* P(t, T, Rt, delta, pt, ptd, pT): the forward discount factor.
P(self, t, T, Rt, delta, pt, ptd, pT) ==
    PGiven(self.sigma, self.a, t, Rt, delta, pt, ptd, pT,
           B(self.a, T - t), B(self.a, delta))

\* expiryStep = int(texp/dt + 0.50)
ExpiryStep(texp, dt) == Trunc(Div(texp, dt) + Half)

\* n = int(round(flowTime/dt, 0))
FlowStep(flowTime, dt) == RoundHalfEven(Div(flowTime, dt))

\* couponTimes = [0.0] + the times of bond._flowDates[1:]
CouponTimes(bond) == <<0>> \o bond.flows

\* couponFlows = [0.0] + one cpn per flow date
CouponFlows(bond) ==
    <<0>> \o [i \in 1..Len(bond.flows) |-> bond.coupon \div bond.frequency]

\* The flow of coupon i is projected onto a lattice step (flowTime <= texp).
IsProjected(bond, i, texp) == At(CouponTimes(bond), i) <= texp

\* The flow of coupon i is discounted at the expiry-step nodes
\* (tflow > treeTimes[expiryStep]).
IsPostExpiry(self, bond, i, expiryStep) ==
    At(CouponTimes(bond), i) > At(self.treeTimes, expiryStep)

\* What coupon i adds to treeFlows[n].
FlowShare(self, bond, texp, i, n) ==
    IF IsProjected(bond, i, texp)
       /\ FlowStep(At(CouponTimes(bond), i), self.dt) = n
    THEN Div(Mul(At(CouponFlows(bond), i),
                 CurveDf(self.discountCurve, At(CouponTimes(bond), i))),
             CurveDf(self.discountCurve, At(self.treeTimes, n)))
    ELSE 0

\* treeFlows: the coupon flows up to texp, each added to the step nearest
\* its time and scaled by df(flow time) / df(tree time).
TreeFlows(self, bond, texp) ==
    Array([n \in 0..(Len(self.Q) - 1) |->
              Sum([i \in 0..(Len(bond.flows)) |-> FlowShare(self, bond, texp, i, n)],
                  0, Len(bond.flows))])

\* accrued[m]: the interest accrued at tree time m, prorated in the coupon
\* period that strictly contains it (0 when none does, or past expiryStep).
RECURSIVE AccruedAt(_, _, _, _, _)
AccruedAt(couponTimes, cpn, face, treeTime, nextCpn) ==
    IF nextCpn >= Len(couponTimes) THEN 0
    ELSE IF treeTime > At(couponTimes, nextCpn - 1)
            /\ treeTime < At(couponTimes, nextCpn)
    THEN Div(Mul(Mul(treeTime - At(couponTimes, nextCpn - 1), cpn), face),
             At(couponTimes, nextCpn) - At(couponTimes, nextCpn - 1))
    ELSE AccruedAt(couponTimes, cpn, face, treeTime, nextCpn + 1)

Accrued(self, bond, face, expiryStep) ==
    Array([m \in 0..(Len(self.Q) - 1) |->
              IF m <= expiryStep
              THEN AccruedAt(CouponTimes(bond), bond.coupon \div bond.frequency,
                             face, At(self.treeTimes, m), 1)
              ELSE 0])

\* zcb for every coupon after the expiry step's tree time, at a node of the
\* expiry step with short rate rt (0 where the loop computes none).
ZeroCouponPrices(self, bond, texp, expiryStep, rt) ==
    Array([i \in 0..(Len(bond.flows)) |->
              IF IsPostExpiry(self, bond, i, expiryStep)
              THEN P(self, texp, At(CouponTimes(bond), i), rt, self.dt,
                     CurveDf(self.discountCurve, texp),
                     CurveDf(self.discountCurve, texp + self.dt),
                     CurveDf(self.discountCurve, At(CouponTimes(bond), i)))
              ELSE 0])

\* The coupon whose zcb the loop computed last.
LastPostExpiry(self, bond, expiryStep) ==
    CHOOSE i \in 0..(Len(bond.flows)) :
        /\ IsPostExpiry(self, bond, i, expiryStep)
        /\ \A o \in 0..(Len(bond.flows)) :
               IsPostExpiry(self, bond, o, expiryStep) => o <= i

\* bondPrice: cpn * face * zcb for every coupon priced, then face * zcb with
\* the zcb computed last.
BondPrice(bond, face, zcbs, final) ==
    Sum([i \in 0..(Len(zcbs) - 1) |->
            Mul(Mul(bond.coupon \div bond.frequency, face), At(zcbs, i))],
        0, Len(zcbs) - 1)
    + Mul(face, At(zcbs, final))

\* The bond price at an expiry-step node with short rate rt.
ExpiryBondPrice(self, bond, face, texp, expiryStep, rt) ==
    BondPrice(bond, face, ZeroCouponPrices(self, bond, texp, expiryStep, rt),
              LastPostExpiry(self, bond, expiryStep))

\* The three offsets of row m+1 that the rollback of node k reads, as
\* <<up, middle, down>>: the second test repeats the first, so only the top
\* node leaves the interior pattern.
RollbackChildren(k, jmax) ==
    LET kN == k + jmax
    IN  IF k = jmax THEN [u |-> kN, m |-> kN - 1, d |-> kN - 2]
        ELSE IF k = jmax THEN [u |-> kN + 2, m |-> kN + 1, d |-> kN]
        ELSE [u |-> kN + 1, m |-> kN, d |-> kN - 1]

\* pu*vu + pm*vm + pd*vd, read from row `next` (row m+1) at the offsets ch.
Expectation(self, kN, next, ch) ==
    Mul(At(self.pu, kN), PyAt(next, ch.u))
    + Mul(At(self.pm, kN), PyAt(next, ch.m))
    + Mul(At(self.pd, kN), PyAt(next, ch.d))

\* v = (pu*vu + pm*vm + pd*vd) * df
Rollback(self, m, kN, jmax, next) ==
    Mul(Expectation(self, kN, next, RollbackChildren(kN - jmax, jmax)),
        Exp(-Mul(At(At(self.rt, m), kN), self.dt)))

\* Row m of a value grid stepped back from row m+1, plus the flow of step m.
RollbackRow(self, m, jmax, next, flow) ==
    Array([kN \in 0..(Len(next) - 1) |->
              IF Abs(kN - jmax) <= Min(m, jmax)
              THEN Rollback(self, m, kN, jmax, next) + flow
              ELSE 0])

\* A faulty variant of ExerciseRow: the smaller of exercise and hold.
ExerciseRowMin(bondRow, holdRow, m, jmax, accrued, strikePrice, americanExercise) ==
    Array([kN \in 0..(Len(holdRow) - 1) |->
              IF Abs(kN - jmax) <= Min(m, jmax) /\ americanExercise
              THEN Min(Max(At(bondRow, kN) - accrued - strikePrice, 0),
                       At(holdRow, kN))
              ELSE At(holdRow, kN)])

\* optionValues[m, :]: the larger of exercise and hold when the exercise is
\* American, else hold.
ExerciseRow(bondRow, holdRow, m, jmax, accrued, strikePrice, americanExercise) ==
    Array([kN \in 0..(Len(holdRow) - 1) |->
              IF Abs(kN - jmax) <= Min(m, jmax) /\ americanExercise
              THEN Max(Max(At(bondRow, kN) - accrued - strikePrice, 0),
                       At(holdRow, kN))
              ELSE At(holdRow, kN)])

\* The value grids with row m replaced.
WithRows(g, m, bondRow, optionRow) ==
    [bondValues |-> [g.bondValues EXCEPT ![m + 1] = bondRow],
     optionValues |-> [g.optionValues EXCEPT ![m + 1] = optionRow]]

BackStepRows(g, m, jmax, bondRow, holdRow, accrued, strikePrice, americanExercise) ==
    WithRows(g, m, bondRow,
             ExerciseRow(bondRow, holdRow, m, jmax, accrued, strikePrice,
                         americanExercise))

\* The value grids after the pass for row m of the loop that steps back.
BackStep(self, g, m, jmax, flow, accrued, strikePrice, americanExercise) ==
    BackStepRows(g, m, jmax,
                 RollbackRow(self, m, jmax, At(g.bondValues, m + 1), flow),
                 RollbackRow(self, m, jmax, At(g.optionValues, m + 1), 0),
                 accrued, strikePrice, americanExercise)

\* for m in range(expiryStep-1, -1, -1)
RECURSIVE BackLoop(_, _, _, _, _, _, _, _, _)
BackLoop(self, g, m, jmax, treeFlows, accrued, face, strikePrice, americanExercise) ==
    IF m < 0 \/ Len(g.bondValues) = 0 THEN g
    ELSE BackLoop(self,
                  BackStep(self, g, m, jmax, Mul(At(treeFlows, m), face),
                           At(accrued, m), strikePrice, americanExercise),
                  m - 1, jmax, treeFlows, accrued, face, strikePrice,
                  americanExercise)

\* bondValues[expiryStep, :]: the bond price at every occupied node of the
\* expiry step, plus the flow projected onto that step.
ExpiryBondRow(self, bond, face, texp, expiryStep, jmax, flow) ==
    Array([kN \in 0..(Len(At(self.Q, 0)) - 1) |->
              IF Abs(kN - jmax) <= Min(expiryStep, jmax)
              THEN ExpiryBondPrice(self, bond, face, texp, expiryStep,
                                   At(At(self.rt, expiryStep), kN)) + flow
              ELSE 0])

\* optionValues[expiryStep, :] = max(cleanPrice - strikePrice, 0)
ExpiryOptionRow(bondRow, expiryStep, jmax, accrued, strikePrice) ==
    Array([kN \in 0..(Len(bondRow) - 1) |->
              IF Abs(kN - jmax) <= Min(expiryStep, jmax)
              THEN Max(At(bondRow, kN) - accrued - strikePrice, 0)
              ELSE 0])

\* Grids of zeros with the rows of the expiry step set.
SeededGrids(rows, expiryStep, bondRow, optionRow) ==
    WithRows([bondValues |-> Zeros2(rows, Len(bondRow)),
              optionValues |-> Zeros2(rows, Len(bondRow))],
             expiryStep, bondRow, optionRow)

ExpiryGridsRow(self, expiryStep, jmax, accrued, strikePrice, bondRow) ==
    SeededGrids(Len(self.Q), expiryStep, bondRow,
                ExpiryOptionRow(bondRow, expiryStep, jmax,
                                At(accrued, expiryStep), strikePrice))

\* The value grids seeded at the expiry step.
ExpiryGrids(self, bond, face, texp, expiryStep, jmax, treeFlows, accrued, strikePrice) ==
    ExpiryGridsRow(self, expiryStep, jmax, accrued, strikePrice,
                   ExpiryBondRow(self, bond, face, texp, expiryStep, jmax,
                                 Mul(At(treeFlows, expiryStep), face)))

\* What bondOption returns and stores once the grids are filled.
Priced(g, jmax) ==
    [exc |-> "none", msg |-> "",
     ret |-> <<At(At(g.optionValues, 0), jmax), At(At(g.bondValues, 0), jmax)>>,
     bondValues |-> g.bondValues, optionValues |-> g.optionValues]

\* bondOption from the seeding of the grids on.
bondOptionGrids(self, texp, strikePrice, face, bond, americanExercise, jmax, expiryStep, treeFlows, accrued) ==
    Priced(BackLoop(self,
                    ExpiryGrids(self, bond, face, texp, expiryStep, jmax,
                                treeFlows, accrued, strikePrice),
                    expiryStep - 1, jmax, treeFlows, accrued, face,
                    strikePrice, americanExercise),
           jmax)

\* bondOption: the outcome, with the grids it stores when it returns.
bondOption(self, texp, strikePrice, face, bond, americanExercise) ==
    IF texp > bond.maturity
    THEN Raise("FinError", "Option expiry after bond matures.")
    ELSE IF texp < 0 THEN Raise("FinError", "Option expiry time negative.")
    ELSE IF self.discountCurve = None
    THEN Raise("AttributeError", "'NoneType' object has no attribute '_times'")
    ELSE IF \E i \in 0..(Len(bond.flows)) : At(CouponTimes(bond), i) < 0
    THEN Raise("FinError", "No coupon times can be before the value date.")
    ELSE IF \E i \in 0..(Len(bond.flows)) : At(CouponTimes(bond), i) > bond.maturity
    THEN Raise("FinError", "No coupon times can be after the maturity date.")
    ELSE IF OutOfRange(self.treeTimes, ExpiryStep(texp, self.dt))
    THEN Raise("IndexError", "index out of bounds")
    ELSE IF \A i \in 0..(Len(bond.flows)) :
                ~IsPostExpiry(self, bond, i, ExpiryStep(texp, self.dt))
    THEN Raise("UnboundLocalError", "local variable 'zcb' referenced before assignment")
    ELSE bondOptionGrids(self, texp, strikePrice, face, bond, americanExercise,
                         Jmax(self.a, self.dt), ExpiryStep(texp, self.dt),
                         TreeFlows(self, bond, texp),
                         Accrued(self, bond, face, ExpiryStep(texp, self.dt)))

\* The times of the flows a bond pays after time t (bond._flowDates[1:] once
\* bond.calculateFlowDates(t) has run; the bond is an external collaborator).
RECURSIVE FlowTimesFrom(_, _, _)
FlowTimesFrom(flows, t, i) ==
    IF i > Len(flows) THEN <<>>
    ELSE IF flows[i] > t THEN <<flows[i]>> \o FlowTimesFrom(flows, t, i + 1)
    ELSE FlowTimesFrom(flows, t, i + 1)

FlowTimesAfter(bond, t) == FlowTimesFrom(bond.flows, t, 1)

\* The standard normal distribution function N(x) (an external function):
\* the polynomial approximation in k = 1/(1 + 0.2316419 |x|).
NTail(z, k) ==
    Mul(Mul(398942, Exp(-Mul(z, z) \div 2)),
        Mul(k, 319382 + Mul(k, -356564 + Mul(k, 1781478
                 + Mul(k, -1821256 + Mul(k, 1330274))))))

NUpper(z) == NTail(z, Div(One, One + Mul(231642, z)))

N(x) == IF x >= 0 THEN One - NUpper(Min(x, 8 * One)) ELSE NUpper(Min(-x, 8 * One))

\* pv: the coupons times their zcb, plus the zcb computed last.
CouponBondPV(bond, zcbs) ==
    Sum([i \in 0..(Len(zcbs) - 1) |->
            Mul(bond.coupon \div bond.frequency, At(zcbs, i))],
        0, Len(zcbs) - 1)
    + At(zcbs, Len(zcbs) - 1)

\* The price of the bond at a node of the expiry step with short rate rt
\* (the inner loop of europeanBondOption).
NodePV(self, bond, flowTimes, texp, rt) ==
    CouponBondPV(bond,
        Array([i \in 0..(Len(flowTimes) - 1) |->
                  P(self, texp, At(flowTimes, i), rt, self.dt,
                    CurveDf(self.discountCurve, texp),
                    CurveDf(self.discountCurve, texp + self.dt),
                    CurveDf(self.discountCurve, At(flowTimes, i)))]))

\* <<callPrice, putPrice>>: the payoffs at the nodes of the expiry step,
\* each weighted by the node's Arrow-Debreu price.
Aggregate(self, expiryStep, strikePrice, face, pvs) ==
    <<Sum([k \in 0..(Len(pvs) - 1) |->
              Mul(At(At(self.Q, expiryStep), k),
                  Max(Mul(At(pvs, k), face) - strikePrice, 0))],
          0, Len(pvs) - 1),
      Sum([k \in 0..(Len(pvs) - 1) |->
              Mul(At(At(self.Q, expiryStep), k),
                  Max(strikePrice - Mul(At(pvs, k), face), 0))],
          0, Len(pvs) - 1)>>

europeanBondOption(self, texp, strikePrice, face, bond) ==
    IF texp > bond.maturity
    THEN Raise("FinError", "Option expiry after bond matures.")
    ELSE IF texp < 0 THEN Raise("FinError", "Option expiry time negative.")
    ELSE IF self.treeTimes = None
    THEN Raise("FinError", "Tree has not been constructed.")
    ELSE IF PyAt(self.treeTimes, -1) < texp
    THEN Raise("FinError", "Tree expiry must be >= option expiry date.")
    ELSE IF FlowTimesAfter(bond, texp) = <<>>
    THEN Raise("UnboundLocalError", "local variable 'zcb' referenced before assignment")
    ELSE Return(Aggregate(self, ExpiryStep(texp, self.dt), strikePrice, face,
            Array([k \in 0..(Len(At(self.Q, 0)) - 1) |->
                      NodePV(self, bond, FlowTimesAfter(bond, texp), texp,
                             At(At(self.rt, ExpiryStep(texp, self.dt)), k))])))

\* callPrice, putPrice of the analytical formula once sigmap and h are known.
AnalPrices(strikePrice, face, ptexp, ptmat, sigmap, h) ==
    <<Mul(Mul(face, ptmat), N(h)) - Mul(Mul(strikePrice, ptexp), N(h - sigmap)),
      Mul(Mul(strikePrice, ptexp), N(-h + sigmap)) - Mul(Mul(face, ptmat), N(-h))>>

AnalGivenSigmap(strikePrice, face, ptexp, ptmat, sigmap) ==
    IF sigmap = 0 THEN Raise("ZeroDivisionError", "float division by zero")
    ELSE Return(AnalPrices(strikePrice, face, ptexp, ptmat, sigmap,
                    Div(Log(Div(Mul(face, ptmat), Mul(strikePrice, ptexp))), sigmap)
                    + Div(sigmap, 2 * One)))

\* A faulty variant of europeanOptionOnZeroCouponBond_Anal: the expiry is
\* not validated.
AnalUnchecked(self, texp, tmat, strikePrice, face, discountCurve) ==
    AnalGivenSigmap(strikePrice, face, CurveDf(discountCurve, texp),
        CurveDf(discountCurve, tmat),
        Mul(Mul(Div(self.sigma, self.a), One - Exp(-Mul(self.a, tmat - texp))),
            Sqrt(Div(Div(One - Exp(Mul(-2 * self.a, texp)), 2 * One), self.a))))

europeanOptionOnZeroCouponBond_Anal(self, texp, tmat, strikePrice, face, discountCurve) ==
    IF texp > tmat THEN Raise("FinError", "Option expiry after bond matures.")
    ELSE IF texp < 0 THEN Raise("FinError", "Option expiry time negative.")
    ELSE AnalGivenSigmap(strikePrice, face, CurveDf(discountCurve, texp),
             CurveDf(discountCurve, tmat),
             Mul(Mul(Div(self.sigma, self.a), One - Exp(-Mul(self.a, tmat - texp))),
                 Sqrt(Div(Div(One - Exp(Mul(-2 * self.a, texp)), 2 * One), self.a))))

europeanOptionOnZeroCouponBond_Tree(self, texp, tmat, strikePrice, face) ==
    IF texp > tmat THEN Raise("FinError", "Option expiry after bond matures.")
    ELSE IF texp < 0 THEN Raise("FinError", "Option expiry time negative.")
    ELSE IF self.treeTimes = None
    THEN Raise("FinError", "Tree has not been constructed.")
    ELSE IF PyAt(self.treeTimes, -1) < texp
    THEN Raise("FinError", "Tree expiry must be >= option expiry date.")
    ELSE Return(Aggregate(self, ExpiryStep(texp, self.dt), strikePrice, face,
            Array([k \in 0..(Len(At(self.Q, 0)) - 1) |->
                      P(self, texp, tmat,
                        At(At(self.rt, ExpiryStep(texp, self.dt)), k), self.dt,
                        CurveDf(self.discountCurve, texp),
                        CurveDf(self.discountCurve, texp + self.dt),
                        CurveDf(self.discountCurve, tmat))])))

\* timeStep = int(tmat / self._dt) + 1
TimeStep(tmat, dt) == Trunc(Div(tmat, dt)) + 1

\* p: the sum of the Arrow-Debreu prices of a row of Q.
RowSum(row) == Sum([i \in 0..(Len(row) - 1) |-> At(row, i)], 0, Len(row) - 1)

\* (p, zeroRate)
WithZeroRate(p, tmat) == <<p, Div(-Log(p), tmat)>>

\* df_Tree: 1.0 for time zero, else (p, zeroRate) with p the sum of the
\* Arrow-Debreu prices of row timeStep.
df_Tree(self, tmat) ==
    IF tmat = 0 THEN Return(<<One>>)
    ELSE IF self.Q = None
    THEN Raise("AttributeError", "'NoneType' object has no attribute 'shape'")
    ELSE IF Abs(Div(tmat, self.dt) - Trunc(Div(tmat, self.dt)) * One) > 1
    THEN Raise("FinError", "Time not on tree time grid")
    ELSE IF OutOfRange(self.Q, TimeStep(tmat, self.dt))
    THEN Raise("IndexError", "index out of bounds")
    ELSE Return(WithZeroRate(RowSum(At(self.Q, TimeStep(tmat, self.dt))), tmat))

\* buildTree: the lattice fields it assigns, as one record.
LatticeFields(built, treeTimes, discountCurve) ==
    [Q |-> built.Q, pu |-> built.pu, pm |-> built.pm, pd |-> built.pd,
     rt |-> built.rt, dt |-> built.dt, treeTimes |-> treeTimes,
     discountCurve |-> discountCurve]

buildTreeOn(self, treeTimes, numTimeSteps, discountCurve) ==
    LatticeFields(buildTreeFast(self.a, self.sigma, treeTimes, numTimeSteps,
                                DiscountFactors(treeTimes, discountCurve)),
                  treeTimes, discountCurve)

buildTree(self, maturity, numTimeSteps, discountCurve) ==
    buildTreeOn(self, TreeTimes(maturity, numTimeSteps), numTimeSteps, discountCurve)

\* ------------------------------------------------------------------------
\* The inputs of the calls.
\* ------------------------------------------------------------------------

MaxSteps == 2

MeanReversions == {400000, 4000000}

Volatilities == {10000}

Curves == {<<50000>>}

Maturities == {One}

StepCounts == 1..MaxSteps

Expiries == {-Half, 900000, 1100000, 1500000, 2500000}

\* A two-year bond paying 4% semi-annually, and a bond whose coupon dates
\* fall off the grid of the lattice.
Bonds ==
    {[maturity |-> 2 * One, flows |-> <<Half, One, 1500000, 2 * One>>,
      coupon |-> 40000, frequency |-> 2],
     [maturity |-> 1600000, flows |-> <<100000, 600000, 1100000, 1600000>>,
      coupon |-> 40000, frequency |-> 2]}

Strikes == {900000}

Faces == {One}

GridTimes == {0, Half, 700000, 1500000}

\* The object __init__ leaves: the parameters, and no lattice field set
\* (dt, which __init__ does not assign, reads 0 until buildTree assigns it).
NewObject(a0, sigma0) ==
    [a |-> a0, sigma |-> sigma0, Q |-> None, pu |-> None, pm |-> None,
     pd |-> None, rt |-> None, dt |-> 0, treeTimes |-> None,
     discountCurve |-> None]

\* The object once buildTree has assigned the lattice fields.
WithLattice(self, new) ==
    [a |-> self.a, sigma |-> self.sigma, Q |-> new.Q, pu |-> new.pu,
     pm |-> new.pm, pd |-> new.pd, rt |-> new.rt, dt |-> new.dt,
     treeTimes |-> new.treeTimes, discountCurve |-> new.discountCurve]

\* The objects the calls above can produce, and the methods tabulated over
\* them and over the inputs: a method is a function of the object and its
\* arguments, so each outcome is computed once.
BuildInputs ==
    {<<maturity, numTimeSteps, curve>> :
        maturity \in Maturities, numTimeSteps \in StepCounts, curve \in Curves}

NewObjects == {NewObject(a0, sigma0) : a0 \in MeanReversions, sigma0 \in Volatilities}

buildTreeTable ==
    [self \in NewObjects, i \in BuildInputs |-> buildTree(self, i[1], i[2], i[3])]

BuiltObjects ==
    {WithLattice(self, buildTreeTable[self, i]) : self \in NewObjects, i \in BuildInputs}

Objects == {self : self \in NewObjects \cup BuiltObjects}

OptionInputs ==
    {<<texp, strikePrice, face, bond>> :
        texp \in Expiries, strikePrice \in Strikes, face \in Faces, bond \in Bonds}

bondOptionTable ==
    [self \in Objects, i \in OptionInputs, americanExercise \in BOOLEAN |->
        bondOption(self, i[1], i[2], i[3], i[4], americanExercise)]

europeanBondOptionTable ==
    [self \in Objects, i \in OptionInputs |->
        europeanBondOption(self, i[1], i[2], i[3], i[4])]

ZeroMaturities == {2 * One}

ZeroInputs ==
    {<<texp, tmat, strikePrice, face>> :
        texp \in Expiries, tmat \in ZeroMaturities, strikePrice \in Strikes,
        face \in Faces}

zeroCouponTreeTable ==
    [self \in Objects, i \in ZeroInputs |->
        europeanOptionOnZeroCouponBond_Tree(self, i[1], i[2], i[3], i[4])]

df_TreeTable == [self \in Objects, tmat \in GridTimes |-> df_Tree(self, tmat)]

VARIABLES _a, _sigma, _Q, _pu, _pm, _pd, _rt, _dt, _treeTimes, _discountCurve,
          _bondValues, _optionValues, call

lattice == <<_Q, _pu, _pm, _pd, _rt, _dt, _treeTimes, _discountCurve>>

grids == <<_bondValues, _optionValues>>

vars == <<_a, _sigma, _Q, _pu, _pm, _pd, _rt, _dt, _treeTimes, _discountCurve,
          _bondValues, _optionValues, call>>

Self ==
    [a |-> _a, sigma |-> _sigma, Q |-> _Q, pu |-> _pu, pm |-> _pm, pd |-> _pd,
     rt |-> _rt, dt |-> _dt, treeTimes |-> _treeTimes,
     discountCurve |-> _discountCurve]

\* __init__: the parameters are stored and no lattice field holds a value.
Init ==
    /\ _a \in MeanReversions
    /\ _sigma \in Volatilities
    /\ _Q = None /\ _pu = None /\ _pm = None /\ _pd = None /\ _rt = None
    /\ _dt = 0
    /\ _treeTimes = None
    /\ _discountCurve = None
    /\ _bondValues = None /\ _optionValues = None
    /\ call = [op |-> "__init__", args |-> <<>>, exc |-> "none", msg |-> "",
               ret |-> <<>>]

\* The record of the call just made: the method, its arguments, and the
\* exception it raised or the value it returned.
Called(op, args, out) ==
    [op |-> op, args |-> args, exc |-> out.exc, msg |-> out.msg, ret |-> out.ret]

\* buildTree assigns the eight lattice fields from one build.
Assigned(new) ==
    /\ _Q' = new.Q /\ _pu' = new.pu /\ _pm' = new.pm /\ _pd' = new.pd
    /\ _rt' = new.rt /\ _dt' = new.dt
    /\ _treeTimes' = new.treeTimes
    /\ _discountCurve' = new.discountCurve

BuildTree ==
    \E maturity \in Maturities, numTimeSteps \in StepCounts, curve \in Curves :
        /\ Assigned(buildTreeTable[NewObject(_a, _sigma),
                                   <<maturity, numTimeSteps, curve>>])
        /\ call' = Called("buildTree",
                          [maturity |-> maturity, numTimeSteps |-> numTimeSteps,
                           discountCurve |-> curve], Return(<<>>))
        /\ UNCHANGED <<_a, _sigma, _bondValues, _optionValues>>

CallP ==
    \E t \in {Half}, T \in {One, 2 * One}, Rt \in {50000} :
        /\ call' = Called("P", [t |-> t, T |-> T, Rt |-> Rt],
                          Return(<<P(Self, t, T, Rt, Half, CurveDf(<<Rt>>, t),
                                    CurveDf(<<Rt>>, t + Half), CurveDf(<<Rt>>, T))>>))
        /\ UNCHANGED <<_a, _sigma, lattice, grids>>

EuropeanBondOption ==
    \E texp \in Expiries, strikePrice \in Strikes, face \in Faces, bond \in Bonds :
        /\ call' = Called("europeanBondOption",
                          [texp |-> texp, tmat |-> bond.maturity,
                           strikePrice |-> strikePrice, face |-> face, bond |-> bond],
                          europeanBondOptionTable[Self, <<texp, strikePrice, face, bond>>])
        /\ UNCHANGED <<_a, _sigma, lattice, grids>>

\* A faulty variant of ZeroCouponAnal: the pricer keeps the curve it was
\* given in the model's _discountCurve.
ZeroCouponAnalKeepsCurve ==
    \E texp \in Expiries, tmat \in ZeroMaturities, strikePrice \in Strikes,
       face \in Faces, curve \in Curves :
        /\ call' = Called("europeanOptionOnZeroCouponBond_Anal",
                          [texp |-> texp, tmat |-> tmat, strikePrice |-> strikePrice,
                           face |-> face, discountCurve |-> curve],
                          europeanOptionOnZeroCouponBond_Anal(Self, texp, tmat,
                                                              strikePrice, face, curve))
        /\ _discountCurve' = curve
        /\ UNCHANGED <<_a, _sigma, _Q, _pu, _pm, _pd, _rt, _dt, _treeTimes, grids>>

ZeroCouponAnal ==
    \E texp \in Expiries, tmat \in ZeroMaturities, strikePrice \in Strikes,
       face \in Faces, curve \in Curves :
        /\ call' = Called("europeanOptionOnZeroCouponBond_Anal",
                          [texp |-> texp, tmat |-> tmat, strikePrice |-> strikePrice,
                           face |-> face, discountCurve |-> curve],
                          europeanOptionOnZeroCouponBond_Anal(Self, texp, tmat,
                                                              strikePrice, face, curve))
        /\ UNCHANGED <<_a, _sigma, lattice, grids>>

ZeroCouponTree ==
    \E texp \in Expiries, tmat \in ZeroMaturities, strikePrice \in Strikes,
       face \in Faces :
        /\ call' = Called("europeanOptionOnZeroCouponBond_Tree",
                          [texp |-> texp, tmat |-> tmat, strikePrice |-> strikePrice,
                           face |-> face],
                          zeroCouponTreeTable[Self, <<texp, tmat, strikePrice, face>>])
        /\ UNCHANGED <<_a, _sigma, lattice, grids>>

\* bondOption stores its two grids when it returns, and nothing when it raises.
Stored(args, out) ==
    /\ call' = Called("bondOption", args, out)
    /\ IF out.exc = "none"
       THEN /\ _bondValues' = out.bondValues
            /\ _optionValues' = out.optionValues
       ELSE UNCHANGED grids

BondOption ==
    \E texp \in Expiries, strikePrice \in Strikes, face \in Faces, bond \in Bonds,
       americanExercise \in BOOLEAN :
        /\ Stored([texp |-> texp, tmat |-> bond.maturity,
                   strikePrice |-> strikePrice, face |-> face, bond |-> bond,
                   americanExercise |-> americanExercise],
                  bondOptionTable[Self, <<texp, strikePrice, face, bond>>,
                                  americanExercise])
        /\ UNCHANGED <<_a, _sigma, lattice>>

DfTree ==
    \E tmat \in GridTimes :
        /\ call' = Called("df_Tree", [tmat |-> tmat], df_TreeTable[Self, tmat])
        /\ UNCHANGED <<_a, _sigma, lattice, grids>>

Next ==
    \/ BuildTree
    \/ CallP
    \/ EuropeanBondOption
    \/ ZeroCouponAnal
    \/ ZeroCouponTree
    \/ BondOption
    \/ DfTree

Spec == Init /\ [][Next]_vars


\* ------------------------------------------------------------------------
\* Properties
\* ------------------------------------------------------------------------

\* The tolerance of an equality between floats that hold a discount factor.
Tol == One \div 10000

\* The tolerance of an equality between a sum of three floats and 1.
SumTol == One \div 100000

\* buildTree has assigned the lattice.
Built == _Q # None

\* The spatial half-width of the lattice the object holds.
BuiltJmax == (Len(_pu) - 1) \div 2

\* Node k of row m is occupied: |k| <= min(m, jmax).
Occupied(m, k) == Abs(k) <= Min(m, BuiltJmax)

\* discountFactors[m], as buildTree took them from the curve.
CurveFactor(m) == At(DiscountFactors(_treeTimes, _discountCurve), m)

\* sum_j Q[m,j] * exp(-r[m,j] * dt)
DiscountedRowSum(m) ==
    Sum([jN \in 0..(2 * BuiltJmax) |->
            Mul(At(At(_Q, m), jN), Exp(-Mul(At(At(_rt, m), jN), _dt)))],
        0, 2 * BuiltJmax)

\* C1: once buildTree has run, for every time step m in 0..numTimeSteps+1
\* the Arrow-Debreu prices of row m sum to discountFactors[m], and for every
\* m in 0..numTimeSteps the prices of row m, each discounted over one step
\* at its node's short rate, sum to discountFactors[m+1] (within Tol).
C1_RowSumsMatchCurve ==
    Built =>
        /\ \A m \in 0..(Len(_Q) - 1) :
               Abs(RowSum(At(_Q, m)) - CurveFactor(m)) <= Tol
        /\ \A m \in 0..(Len(_Q) - 2) :
               Abs(DiscountedRowSum(m) - CurveFactor(m + 1)) <= Tol

\* A lattice of two time steps has just been built, and its last row
\* (numTimeSteps+1 = 3) holds prices at three nodes that sum to less than 1.
C1_Witness ==
    /\ call.op = "buildTree"
    /\ Len(_Q) = 4
    /\ \A jN \in 0..2 : At(At(_Q, 3), jN) > 0
    /\ RowSum(At(_Q, 3)) < One
    /\ Abs(RowSum(At(_Q, 3)) - CurveFactor(3)) <= Tol

\* C2: for every spatial index j in -jmax..jmax of a built lattice,
\* pu[j] + pm[j] + pd[j] = 1 (within SumTol), whichever of the three
\* formulas (top, bottom, interior) gave the probabilities.
C2_ProbabilitiesSumToOne ==
    Built =>
        \A jN \in 0..(Len(_pu) - 1) :
            Abs(At(_pu, jN) + At(_pm, jN) + At(_pd, jN) - One) <= SumTol

\* A built lattice with a top, an interior and a bottom index, the three
\* holding different probabilities, those of the top one summing to 1.
C2_Witness ==
    /\ Built
    /\ BuiltJmax = 1
    /\ At(_pu, 2) # At(_pu, 1) /\ At(_pu, 1) # At(_pu, 0) /\ At(_pu, 2) # At(_pu, 0)
    /\ Abs(At(_pu, 2) + At(_pm, 2) + At(_pd, 2) - One) <= SumTol
    /\ Abs(At(_pu, 0) + At(_pm, 0) + At(_pd, 0) - One) <= SumTol

\* The last call was bondOption, and it returned.
BondOptionReturned == call.op = "bondOption" /\ call.exc = "none"

\* What bondOption yields for the arguments of the last call, with its
\* exercise flag set as given.
SameCall(americanExercise) ==
    bondOptionTable[Self, <<call.args.texp, call.args.strikePrice,
                            call.args.face, call.args.bond>>, americanExercise]

\* The American grid the last call stored is at least the European grid of
\* the same call at every occupied node up to the expiry step, hence also
\* at the root, whose value is the price returned.
AmericanAtLeastEuropean ==
    /\ call.ret[1] >= SameCall(FALSE).ret[1]
    /\ \A m \in 0..ExpiryStep(call.args.texp, _dt) :
           \A k \in (-BuiltJmax)..BuiltJmax :
               Occupied(m, k) =>
                   At(At(_optionValues, m), k + BuiltJmax)
                       >= At(At(SameCall(FALSE).optionValues, m), k + BuiltJmax)

\* No transition probability of the lattice is negative.
ProbabilitiesNonNegative ==
    \A jN \in 0..(Len(_pu) - 1) :
        At(_pu, jN) >= 0 /\ At(_pm, jN) >= 0 /\ At(_pd, jN) >= 0

C4_DfTreeSumsItsStep ==
    call.op = "df_Tree" =>
        /\ call.args.tmat = 0 => (call.exc = "none" /\ call.ret = <<One>>)
        /\ (/\ Built
            /\ call.args.tmat > 0
            /\ call.args.tmat % _dt = 0
            /\ call.args.tmat \div _dt <= Len(_Q) - 1)
           => (/\ call.exc = "none"
               /\ call.ret[1] = RowSum(At(_Q, call.args.tmat \div _dt)))

\* The operations that read the lattice.
LatticeConsumers ==
    {"europeanBondOption", "europeanOptionOnZeroCouponBond_Tree", "bondOption",
     "df_Tree"}

\* The operations that validate the option expiry against the maturity.
ExpiryChecked ==
    {"bondOption", "europeanBondOption", "europeanOptionOnZeroCouponBond_Tree",
     "europeanOptionOnZeroCouponBond_Anal"}

\* The expiry of a call is after the maturity of its instrument, or negative.
BadExpiry(c) == c.args.texp > c.args.tmat \/ c.args.texp < 0

\* C5: every operation that reads the lattice (europeanBondOption,
\* europeanOptionOnZeroCouponBond_Tree, bondOption, df_Tree with t # 0),
\* called with a valid expiry on a model on which buildTree was never
\* called, fails with FinError 'Tree has not been constructed', and with no
\* other failure, whatever calls preceded it.
C5_NeverBuiltRaisesNotConstructed ==
    (/\ ~Built
     /\ call.op \in LatticeConsumers
     /\ IF call.op = "df_Tree" THEN call.args.tmat # 0 ELSE ~BadExpiry(call))
        => (call.exc = "FinError" /\ call.msg = "Tree has not been constructed.")

\* C6: bondOption, europeanBondOption, europeanOptionOnZeroCouponBond_Tree
\* and europeanOptionOnZeroCouponBond_Anal raise FinError when the expiry is
\* after the maturity or negative, returning nothing and leaving every field
\* as it was: the lattice and the stored _bondValues and _optionValues.
C6_BadExpiryRaisesFirst ==
    [][(call'.op \in ExpiryChecked /\ BadExpiry(call'))
          => (/\ call'.exc = "FinError"
              /\ call'.msg \in {"Option expiry after bond matures.",
                                "Option expiry time negative."}
              /\ call'.ret = <<>>
              /\ UNCHANGED <<_a, _sigma, lattice, grids>>)]_vars

\* bondOption has raised FinError for an expiry after the bond's maturity on
\* a model that holds a lattice and the grids of an earlier call.
C6_Witness ==
    /\ call.op = "bondOption"
    /\ call.args.texp > call.args.tmat
    /\ call.exc = "FinError"
    /\ Built
    /\ _bondValues # None /\ _optionValues # None

\* The eight lattice fields as one build assigns them.
LatticeOf(new) ==
    <<new.Q, new.pu, new.pm, new.pd, new.rt, new.dt, new.treeTimes,
      new.discountCurve>>

\* C7: no pricer (P, europeanBondOption, the two zero-coupon pricers,
\* bondOption, df_Tree) changes Q, rt, pu, pm, pd, dt, treeTimes or the
\* curve the model holds; buildTree alone replaces them, and replaces all
\* eight with the values of one build.
C7_OnlyBuildTreeReplacesLattice ==
    [][IF call'.op = "buildTree"
       THEN lattice' = LatticeOf(buildTreeTable[NewObject(_a, _sigma),
                                     <<call'.args.maturity,
                                       call'.args.numTimeSteps,
                                       call'.args.discountCurve>>])
       ELSE lattice' = lattice]_vars

\* bondOption has returned and stored its grids on a model whose eight
\* lattice fields are still those of one build.
C7_Witness ==
    /\ BondOptionReturned
    /\ _optionValues # None
    /\ \E i \in BuildInputs :
           lattice = LatticeOf(buildTreeTable[NewObject(_a, _sigma), i])

\* C8: at every occupied node of every row the rollback of bondOption steps
\* through, the three children it reads are the ones buildTreeFast
\* propagated that node's price to (top: k, k-1, k-2; bottom: k+2, k+1, k;
\* interior: k+1, k, k-1), and none lies outside the offsets 0..2*jmax.
C8_RollbackReadsBuildChildren ==
    BondOptionReturned =>
        \A m \in 0..(ExpiryStep(call.args.texp, _dt) - 1) :
            \A k \in (-BuiltJmax)..BuiltJmax :
                Occupied(m, k) =>
                    /\ RollbackChildren(k, BuiltJmax) = BranchTargets(k, BuiltJmax)
                    /\ RollbackChildren(k, BuiltJmax).u \in 0..(2 * BuiltJmax)
                    /\ RollbackChildren(k, BuiltJmax).m \in 0..(2 * BuiltJmax)
                    /\ RollbackChildren(k, BuiltJmax).d \in 0..(2 * BuiltJmax)

\* alpha, the drift buildTreeFast calibrated for the lattice the model holds.
Drift ==
    buildTreeFast(_a, _sigma, _treeTimes, Len(_Q) - 2,
                  DiscountFactors(_treeTimes, _discountCurve)).alpha

\* C9: for every time step m in 0..numTimeSteps+1 of a built lattice and
\* every occupied node j of that step, rt[m,j] = alpha[m] + j*dR.
C9_ShortRateOnEveryRow ==
    Built =>
        \A m \in 0..(Len(_rt) - 1) :
            \A k \in (-BuiltJmax)..BuiltJmax :
                Occupied(m, k) =>
                    /\ m < Len(Drift)
                    /\ At(At(_rt, m), k + BuiltJmax)
                           = At(Drift, m) + k * Mul(_sigma, Sqrt(3 * _dt))

\* C10: in a bondOption call that returns, every coupon of the bond is
\* counted exactly once: either its flow is projected onto one step
\* n <= expiryStep, or it is discounted at the expiry-step nodes as a
\* post-expiry flow, never both and never neither.
C10_EveryCouponCountedOnce ==
    BondOptionReturned =>
        \A i \in 1..Len(call.args.bond.flows) :
            IF IsProjected(call.args.bond, i, call.args.texp)
            THEN /\ FlowStep(At(CouponTimes(call.args.bond), i), _dt)
                        <= ExpiryStep(call.args.texp, _dt)
                 /\ ~IsPostExpiry(Self, call.args.bond, i,
                                  ExpiryStep(call.args.texp, _dt))
            ELSE IsPostExpiry(Self, call.args.bond, i,
                              ExpiryStep(call.args.texp, _dt))

\* The constants of the build that the propagation of a row reads, as the
\* object holds them.
BuiltConstants ==
    [jmax |-> BuiltJmax, dt |-> _dt, pu |-> _pu, pm |-> _pm, pd |-> _pd]

\* The three shares Q*pu*z, Q*pm*z and Q*pd*z that node k of row m hands on.
Shares(m, k) ==
    Mul(Mul(At(At(_Q, m), k + BuiltJmax), At(_pu, k + BuiltJmax)),
        Exp(-Mul(At(At(_rt, m), k + BuiltJmax), _dt)))
    + Mul(Mul(At(At(_Q, m), k + BuiltJmax), At(_pm, k + BuiltJmax)),
          Exp(-Mul(At(At(_rt, m), k + BuiltJmax), _dt)))
    + Mul(Mul(At(At(_Q, m), k + BuiltJmax), At(_pd, k + BuiltJmax)),
          Exp(-Mul(At(At(_rt, m), k + BuiltJmax), _dt)))

\* What row m+1 receives from node k of row m, over all its offsets.
Received(m, k) ==
    Sum([t \in 0..(2 * BuiltJmax) |->
            Propagated(BuiltConstants, At(_Q, m),
                       OneStepDiscounts(BuiltConstants, At(_rt, m)), k, t)],
        0, 2 * BuiltJmax)

\* The three offsets node k writes are distinct, inside 0..2*jmax and inside
\* the occupied range of row m+1.
TargetsOccupied(m, k) ==
    /\ BranchTargets(k, BuiltJmax).u # BranchTargets(k, BuiltJmax).m
    /\ BranchTargets(k, BuiltJmax).m # BranchTargets(k, BuiltJmax).d
    /\ BranchTargets(k, BuiltJmax).u # BranchTargets(k, BuiltJmax).d
    /\ \A t \in {BranchTargets(k, BuiltJmax).u, BranchTargets(k, BuiltJmax).m,
                  BranchTargets(k, BuiltJmax).d} :
           t \in 0..(2 * BuiltJmax) /\ Occupied(m + 1, t - BuiltJmax)

\* C11: in the forward propagation of buildTreeFast, for every step m in
\* 0..numTimeSteps and every processed node j of that step, the three
\* positions written in row m+1 are distinct offsets within 0..2*jmax and
\* within the occupied range of step m+1, and pu, pm and pd are each applied
\* to exactly one of them (row m+1 receives the three shares, no more and no
\* less); hence Q[m,j] = 0 wherever |j| > min(m,jmax), and the loop has
\* numTimeSteps+1 passes, so the row m+1 it writes is at most
\* numTimeSteps+1, the last row of Q.
C11_PropagationStaysOccupied ==
    Built =>
        /\ \A m \in 0..(Len(_Q) - 2) :
               \A k \in (-BuiltJmax)..BuiltJmax :
                   Occupied(m, k) =>
                       TargetsOccupied(m, k) /\ Received(m, k) = Shares(m, k)
        /\ \A m \in 0..(Len(_Q) - 1) :
               \A k \in (-BuiltJmax)..BuiltJmax :
                   ~Occupied(m, k) => At(At(_Q, m), k + BuiltJmax) = 0
        /\ Len(Drift) = Len(_Q) - 1

\* A lattice of two time steps has just been built: the centre node of row 0
\* filled the three nodes of row 1 and left the two outer offsets of row 0
\* at zero, and the top and the bottom node of row 1, both holding a price,
\* handed their shares on to row 2 inside the grid.
C11_Witness ==
    /\ call.op = "buildTree"
    /\ Len(_Q) = 4
    /\ BuiltJmax = 1
    /\ At(At(_Q, 0), 0) = 0 /\ At(At(_Q, 0), 2) = 0
    /\ At(At(_Q, 1), 0) > 0 /\ At(At(_Q, 1), 2) > 0
    /\ BranchTargets(1, 1) = [u |-> 2, m |-> 1, d |-> 0]
    /\ BranchTargets(-1, 1) = [u |-> 2, m |-> 1, d |-> 0]
    /\ BranchTargets(0, 1) = [u |-> 2, m |-> 1, d |-> 0]
    /\ Received(1, 1) = Shares(1, 1) /\ Shares(1, 1) > 0
    /\ Received(1, -1) = Shares(1, -1) /\ Shares(1, -1) > 0

====
